---- MODULE Spec2Model ----
(***************************************************************************)
(* TheKitchen: the cart-to-order transition and the payment ledger.        *)
(*                                                                         *)
(* The state is the relational store (tables menu_items, cart, orders,     *)
(* order_items, payments of models.py) and the requests the two gunicorn   *)
(* workers are serving.  The Flask session is a client-side cookie, so     *)
(* the session keys a handler reads ('user_id') are inputs of the request. *)
(* Every handler is one action, except create_order and create_payment,    *)
(* which are split at the point where the worker has read the store and    *)
(* not yet written it, so that two workers interleave there.               *)
(*                                                                         *)
(* Money is kept in hundredths (Numeric(10, 2)).  Python numbers carry     *)
(* their type, because decimal.Decimal refuses arithmetic with float.      *)
(***************************************************************************)
EXTENDS Integers, FiniteSets, Sequences, TLC

VARIABLES
    session_id_nullable, \* whether the deployed cart table accepts NULL session_id
    menu_items,          \* table menu_items: id -> [price, is_available]
    cart,                \* table cart: set of rows
    orders,              \* table orders: set of rows
    order_items,         \* table order_items: set of rows
    payments,            \* table payments: set of rows
    system_settings,     \* table system_settings: key -> value
    inflight,            \* worker -> the request it is serving, or Idle
    observe,             \* whether responses are recorded in resp
    resp                 \* the last response sent: [op, code]

vars == <<session_id_nullable, menu_items, cart, orders, order_items, payments,
          system_settings, inflight, observe, resp>>

store == <<menu_items, cart, orders, order_items, payments>>

-----------------------------------------------------------------------------
(* Bounds of the model *)

MaxQty == 3

\* menu items the model lets the administrator keep
MaxMenu == 3

-----------------------------------------------------------------------------
(* Program constants *)

MIN_DELIVERY_FEE == 40
MAX_DELIVERY_FEE == 80
ADVANCE_PAYMENT_PERCENTAGE == 20
WORKERS == 2
Scale == 100

Workers == 1..WORKERS

\* users table: a customer (id 1) and the administrator (id 2) of create_admin.py
Users == {1, 2}
IsAdmin(u) == u = 2
\* the session holds no 'user_id' key
NoUser == 0
Actors == Users \cup {NoUser}

\* seed-db: Egyptian Koshary 65, Foul and Falafel 45
MenuIds == {1, 2}
SeedPrice(m) == IF m = 1 THEN 65 * Scale ELSE 45 * Scale

OrderStatuses == {"new", "confirmed", "preparing", "on_way", "delivered", "cancelled"}
PaymentMethods == {"instapay", "vodafone_cash", "orange_money", "etisalat_wallet", "cod"}
AllowedExtensions == {"png", "jpg", "jpeg", "gif", "webp"}

\* SQL NULL in a text column
Null == "<NULL>"

\* get_session_id: str(session.get('_id', '')); nothing in the repository sets
\* session['_id'] (auth.login_user sets only user_id and is_admin), so every
\* anonymous session gets the empty string
GetSessionId == ""

\* str.strip() on the request strings the model draws
Strip(s) == IF s \in {" ", "  "} THEN "" ELSE s

Idle == [op |-> "idle"]
NoResp == [op |-> "none", code |-> 0]

-----------------------------------------------------------------------------
(* Python numbers: [t: type, v: value in hundredths] *)

PyInt(n) == [t |-> "int", v |-> n * Scale]
PyDecimal(c) == [t |-> "Decimal", v |-> c]
TypeError == [t |-> "TypeError", v |-> 0]
IsError(x) == x.t = "TypeError"

\* decimal.Decimal implements + and * with int and Decimal only
Unsupported(a, b) == {a.t, b.t} = {"Decimal", "float"}
ResultType(a, b) ==
    IF "Decimal" \in {a.t, b.t} THEN "Decimal"
    ELSE IF "float" \in {a.t, b.t} THEN "float" ELSE "int"

PyAdd(a, b) ==
    IF IsError(a) \/ IsError(b) \/ Unsupported(a, b) THEN TypeError
    ELSE [t |-> ResultType(a, b), v |-> a.v + b.v]

\* the same product with the float operand converted implicitly
PyMulCoerce(a, b) ==
    IF IsError(a) \/ IsError(b) THEN TypeError
    ELSE [t |-> ResultType(a, b), v |-> (a.v * b.v) \div Scale]

PyMul(a, b) ==
    IF IsError(a) \/ IsError(b) \/ Unsupported(a, b) THEN TypeError
    ELSE [t |-> ResultType(a, b), v |-> (a.v * b.v) \div Scale]

\* int / int is a float
PyTrueDiv(a, b) == [t |-> "float", v |-> (a.v * Scale) \div b.v]

\* float(x) of a JSON number
PyToFloat(a) == [t |-> "float", v |-> a.v]

-----------------------------------------------------------------------------
(* Rows and queries *)

CartOf(user_id) == {r \in cart : r.user_id = user_id}
CartOfSession(session_id) == {r \in cart : r.session_id = session_id}
ItemsOf(order_id) == {i \in order_items : i.order_id = order_id}
PaymentsOf(order_id) == {p \in payments : p.order_id = order_id}

\* the order of that id, whoever owns it
AnyOrder(order_id, user_id) == {o \in orders : o.id = order_id}

\* Order.query.filter_by(id=order_id, user_id=user_id)
OwnOrder(order_id, user_id) == {o \in orders : o.id = order_id /\ o.user_id = user_id}

\* primary keys: the next value of the table's sequence
Ids(table) == {r.id : r \in table}
NextId(table) == IF table = {} THEN 1 ELSE 1 + CHOOSE i \in Ids(table) : \A j \in Ids(table) : j <= i

\* the first unused key; cart rows are deleted and re-created without end, and
\* nothing keeps a cart row's key after the row is gone
FreshCartId == CHOOSE i \in 1..(Cardinality(cart) + 1) : i \notin Ids(cart)

\* rows of a query in primary-key order
RECURSIVE ById(_)
ById(rows) ==
    IF rows = {} THEN <<>>
    ELSE LET r == CHOOSE x \in rows : \A y \in rows : x.id <= y.id
         IN  <<r>> \o ById(rows \ {r})

SomeIdle == {w \in Workers : inflight[w] = Idle} # {}

Respond(op, code) ==
    resp' = IF observe THEN [op |-> op, code |-> code] ELSE NoResp

\* the handler returns an error, or raises: the session is rolled back
Fail(op, code) ==
    /\ Respond(op, code)
    /\ UNCHANGED <<session_id_nullable, system_settings, store, inflight, observe>>

\* require_auth / require_admin as the status they return, 0 when they pass
RequireAuth(user_id) ==
    IF user_id = NoUser \/ user_id \notin Users THEN 401 ELSE 0
\* a login is enough
RequireLogin(user_id) == IF user_id = NoUser THEN 401 ELSE 0

RequireAdmin(user_id) ==
    IF user_id = NoUser THEN 401
    ELSE IF user_id \notin Users \/ ~IsAdmin(user_id) THEN 403 ELSE 0

\* cart.session_id is declared nullable=False: a flush of a row with a NULL
\* session_id raises IntegrityError where the table enforces it.  The table is
\* made outside the handlers (flask init-db calls db.create_all(), which leaves
\* an existing table of the configured database as it is), so whether the
\* deployed table enforces the declaration is fixed when the system starts
ViolatesNotNull(rows) ==
    ~session_id_nullable /\ \E r \in rows : r.session_id = Null

-----------------------------------------------------------------------------
(* The store at start *)

\* The order of the specification's end-to-end scenario: A x 2 at 65 and
\* B x 1 at 45, subtotal 175, fee 40, total 215, advance 43
SeedOrder ==
    [id |-> 1, user_id |-> 1, status |-> "new",
     subtotal |-> 175 * Scale, delivery_fee |-> MIN_DELIVERY_FEE * Scale,
     total_amount |-> 215 * Scale, advance_amount |-> 43 * Scale,
     delivery_address |-> "X", notes |-> "", admin_notes |-> Null]
SeedOrderItems ==
    {[id |-> 1, order_id |-> 1, menu_item_id |-> 1, quantity |-> 2,
      unit_price |-> 65 * Scale, notes |-> ""],
     [id |-> 2, order_id |-> 1, menu_item_id |-> 2, quantity |-> 1,
      unit_price |-> 45 * Scale, notes |-> "n"]}

InitStore(with_order) ==
    /\ menu_items = [m \in MenuIds |-> [price |-> SeedPrice(m), is_available |-> TRUE]]
    /\ cart = {}
    /\ orders = IF with_order THEN {SeedOrder} ELSE {}
    /\ order_items = IF with_order THEN SeedOrderItems ELSE {}
    /\ payments = {}
    /\ system_settings = <<>>
    /\ inflight = [w \in Workers |-> Idle]
    /\ resp = NoResp

-----------------------------------------------------------------------------
(* JSON request bodies are records; a key the client left out is not in the
   record's domain *)

Get(data, key, default) == IF key \in DOMAIN data THEN data[key] ELSE default

\* Python truthiness of a text value
Truthy(s) == s \notin {"", Null}

-----------------------------------------------------------------------------
(* routes/cart_api.py *)

\* the caller owns the row (update_cart_item, remove_from_cart)
OwnedBy(r, user_id) ==
    IF user_id # NoUser THEN r.user_id = user_id ELSE r.session_id = GetSessionId

\* existing_item.quantity += quantity
Increased(old, quantity) == old + quantity

\* every menu item can be ordered
NeverUnavailable(menu_item_id) == FALSE

\* not menu_item.is_available
Unavailable(menu_item_id) == ~menu_items[menu_item_id].is_available

\* POST /cart.  menu_item_id and quantity 0 stand for a missing (or zero) field:
\* `not data.get(k)` treats both alike
add_to_cart(user_id, menu_item_id, quantity, raw_notes) ==
    LET notes == Strip(raw_notes)
        session_id == IF user_id # NoUser THEN Null ELSE GetSessionId
        existing ==
            IF user_id # NoUser
            THEN {r \in cart : r.user_id = user_id /\ r.menu_item_id = menu_item_id}
            ELSE {r \in cart : r.session_id = session_id /\ r.menu_item_id = menu_item_id}
        cart_item == [id |-> FreshCartId, session_id |-> session_id, user_id |-> user_id,
                      menu_item_id |-> menu_item_id, quantity |-> quantity, notes |-> notes]
    IN  /\ SomeIdle
        /\ IF menu_item_id = 0 \/ quantity = 0 THEN Fail("add_to_cart", 400)
           ELSE IF quantity <= 0 THEN Fail("add_to_cart", 400)
           ELSE IF menu_item_id \notin DOMAIN menu_items THEN Fail("add_to_cart", 404)
           ELSE IF Unavailable(menu_item_id) THEN Fail("add_to_cart", 400)
           ELSE IF existing # {}
           THEN \E e \in existing :
                   /\ e.quantity + quantity <= MaxQty
                   /\ cart' = (cart \ {e}) \cup
                         {[e EXCEPT !.quantity = Increased(@, quantity),
                                    !.notes = IF notes # "" THEN notes ELSE @]}
                   /\ Respond("add_to_cart", 200)
                   /\ UNCHANGED <<session_id_nullable, system_settings, menu_items, orders, order_items,
                                  payments, inflight, observe>>
           ELSE IF ViolatesNotNull({cart_item}) THEN Fail("add_to_cart", 500)
           ELSE /\ quantity <= MaxQty
                /\ cart' = cart \cup {cart_item}
                /\ Respond("add_to_cart", 200)
                /\ UNCHANGED <<session_id_nullable, system_settings, menu_items, orders, order_items,
                               payments, inflight, observe>>

\* a quantity of 0 is taken
OnlyNegative(quantity) == quantity < 0

\* quantity <= 0
NonPositive(quantity) == quantity <= 0

\* PUT /cart/<item_id>
update_cart_item(user_id, item_id, data) ==
    LET notes == Strip(Get(data, "notes", ""))
        found == {r \in cart : r.id = item_id}
    IN  /\ SomeIdle
        /\ IF "quantity" \notin DOMAIN data THEN Fail("update_cart_item", 400)
           ELSE IF NonPositive(data.quantity) THEN Fail("update_cart_item", 400)
           ELSE IF found = {} THEN Fail("update_cart_item", 404)
           ELSE \E r \in found :
                   IF ~OwnedBy(r, user_id) THEN Fail("update_cart_item", 403)
                   ELSE /\ data.quantity <= MaxQty
                        /\ cart' = (cart \ {r}) \cup
                              {[r EXCEPT !.quantity = data.quantity,
                                         !.notes = IF notes # "" THEN notes ELSE @]}
                        /\ Respond("update_cart_item", 200)
                        /\ UNCHANGED <<session_id_nullable, system_settings, menu_items, orders,
                                       order_items, payments, inflight, observe>>

\* DELETE /cart/<item_id>
remove_from_cart(user_id, item_id) ==
    LET found == {r \in cart : r.id = item_id}
    IN  /\ SomeIdle
        /\ IF found = {} THEN Fail("remove_from_cart", 404)
           ELSE \E r \in found :
                   IF ~OwnedBy(r, user_id) THEN Fail("remove_from_cart", 403)
                   ELSE /\ cart' = cart \ {r}
                        /\ Respond("remove_from_cart", 200)
                        /\ UNCHANGED <<session_id_nullable, system_settings, menu_items, orders,
                                       order_items, payments, inflight, observe>>

\* DELETE /cart
clear_cart(user_id) ==
    /\ SomeIdle
    /\ cart' = IF user_id # NoUser THEN cart \ CartOf(user_id)
               ELSE cart \ CartOfSession(GetSessionId)
    /\ Respond("clear_cart", 200)
    /\ UNCHANGED <<session_id_nullable, system_settings, menu_items, orders, order_items, payments,
                   inflight, observe>>

\* the same loop re-owning every guest row without looking for the user's entry
MergeLoopReown(guest_items, c, user_id) ==
    LET guest == {guest_items[k] : k \in 1..Len(guest_items)}
    IN  {IF r \in guest THEN [r EXCEPT !.user_id = user_id, !.session_id = Null] ELSE r :
            r \in c}

\* the loop of merge_cart over the guest rows, on the session's view c of the
\* cart table; .first() is taken to be the row with the least key
RECURSIVE MergeLoop(_, _, _)
MergeLoop(guest_items, c, user_id) ==
    IF guest_items = <<>> THEN c
    ELSE LET guest_item == Head(guest_items)
             existing == {r \in c : r.user_id = user_id
                                    /\ r.menu_item_id = guest_item.menu_item_id}
             existing_item == CHOOSE r \in existing : \A x \in existing : r.id <= x.id
             summed == [existing_item EXCEPT
                          !.quantity = Increased(@, guest_item.quantity),
                          !.notes = IF Truthy(guest_item.notes) /\ ~Truthy(@)
                                    THEN guest_item.notes ELSE @]
             moved == [guest_item EXCEPT !.user_id = user_id, !.session_id = Null]
         IN  IF existing # {}
             THEN MergeLoop(Tail(guest_items), (c \ {existing_item}) \cup {summed}, user_id)
             ELSE MergeLoop(Tail(guest_items), (c \ {guest_item}) \cup {moved}, user_id)

\* POST /cart/merge
merge_cart(user_id) ==
    LET guest_items == CartOfSession(GetSessionId)
        merged == MergeLoop(ById(guest_items), cart, user_id)
    IN  /\ SomeIdle
        /\ IF RequireAuth(user_id) # 0 THEN Fail("merge_cart", RequireAuth(user_id))
           ELSE IF guest_items = {}
           THEN /\ Respond("merge_cart", 200)
                /\ UNCHANGED <<session_id_nullable, system_settings, store, inflight, observe>>
           ELSE IF ViolatesNotNull(merged \ cart) THEN Fail("merge_cart", 500)
           ELSE /\ \A r \in merged : r.quantity <= MaxQty
                /\ cart' = merged
                /\ Respond("merge_cart", 200)
                /\ UNCHANGED <<session_id_nullable, system_settings, menu_items, orders, order_items,
                               payments, inflight, observe>>

-----------------------------------------------------------------------------
(* routes/menu_api.py *)

\* POST /menu: data may hold "price" (in hundredths) and "is_available"; the
\* names and descriptions are given.  A price of 0 is a missing field to
\* `not data.get(k)`
create_menu_item(user_id, data) ==
    LET price == Get(data, "price", 0)
        id == 1 + Cardinality(DOMAIN menu_items)
        menu_item == [price |-> price, is_available |-> Get(data, "is_available", TRUE)]
    IN  /\ SomeIdle
        /\ IF RequireAdmin(user_id) # 0 THEN Fail("create_menu_item", RequireAdmin(user_id))
           ELSE IF price = 0 THEN Fail("create_menu_item", 400)
           ELSE /\ Cardinality(DOMAIN menu_items) < MaxMenu
                /\ menu_items' = [m \in DOMAIN menu_items \cup {id} |->
                                     IF m = id THEN menu_item ELSE menu_items[m]]
                /\ Respond("create_menu_item", 201)
                /\ UNCHANGED <<session_id_nullable, system_settings, cart, orders, order_items, payments,
                               inflight, observe>>

\* the same request with the new price written through to the order items
update_menu_item_cascade(user_id, item_id, data) ==
    /\ SomeIdle
    /\ RequireAdmin(user_id) = 0
    /\ item_id \in DOMAIN menu_items
    /\ menu_items' = [menu_items EXCEPT ![item_id].price = Get(data, "price", @)]
    /\ order_items' = {IF i.menu_item_id = item_id
                       THEN [i EXCEPT !.unit_price = Get(data, "price", @)]
                       ELSE i : i \in order_items}
    /\ Respond("update_menu_item", 200)
    /\ UNCHANGED <<session_id_nullable, system_settings, cart, orders, payments, inflight, observe>>

\* PUT /menu/<item_id>: data may hold "price" (in hundredths, the two decimals
\* the Numeric(10, 2) column keeps of float(data["price"])) and "is_available"
update_menu_item(user_id, item_id, data) ==
    /\ SomeIdle
    /\ IF RequireAdmin(user_id) # 0 THEN Fail("update_menu_item", RequireAdmin(user_id))
       ELSE IF item_id \notin DOMAIN menu_items THEN Fail("update_menu_item", 404)
       ELSE /\ menu_items' = [menu_items EXCEPT
                  ![item_id].price = Get(data, "price", @),
                  ![item_id].is_available = Get(data, "is_available", @)]
            /\ Respond("update_menu_item", 200)
            /\ UNCHANGED <<session_id_nullable, system_settings, cart, orders, order_items, payments,
                           inflight, observe>>

\* PUT /menu/<item_id>/toggle-availability
toggle_availability(user_id, item_id) ==
    /\ SomeIdle
    /\ IF RequireAdmin(user_id) # 0 THEN Fail("toggle_availability", RequireAdmin(user_id))
       ELSE IF item_id \notin DOMAIN menu_items THEN Fail("toggle_availability", 404)
       ELSE /\ menu_items' = [menu_items EXCEPT ![item_id].is_available = ~@]
            /\ Respond("toggle_availability", 200)
            /\ UNCHANGED <<session_id_nullable, system_settings, cart, orders, order_items, payments,
                           inflight, observe>>

-----------------------------------------------------------------------------
(* routes/orders_api.py *)

RECURSIVE PySum(_)
\* sum(...) of a sequence of numbers: starts from the int 0
PySum(xs) == IF xs = <<>> THEN PyInt(0) ELSE PyAdd(PySum(Tail(xs)), Head(xs))

\* item.menu_item.price * item.quantity for the rows of cart_items, the price
\* loaded from menu_items (a Numeric column: a Decimal) when it is used
LinePrices(cart_items) ==
    [k \in 1..Len(cart_items) |->
        PyMul(PyDecimal(menu_items[cart_items[k].menu_item_id].price),
              PyInt(cart_items[k].quantity))]

\* Config.ADVANCE_PAYMENT_PERCENTAGE / 100
AdvanceRate == PyTrueDiv(PyInt(ADVANCE_PAYMENT_PERCENTAGE), PyInt(100))

\* the same request going on to the subtotal whatever the address and the cart
create_order_read_unchecked(w, user_id, delivery_address, raw_notes) ==
    /\ inflight[w] = Idle
    /\ IF RequireAuth(user_id) # 0 THEN Fail("create_order", RequireAuth(user_id))
       ELSE /\ inflight' = [inflight EXCEPT ![w] =
                  [op |-> "create_order", user_id |-> user_id,
                   cart_items |-> CartOf(user_id),
                   delivery_address |-> delivery_address,
                   notes |-> raw_notes]]
            /\ UNCHANGED <<session_id_nullable, system_settings, store, observe, resp>>

\* POST /orders, up to the cart query: a delivery_address of "" stands for a
\* missing (or empty) field
create_order_read(w, user_id, delivery_address, raw_notes) ==
    LET cart_items == CartOf(user_id)
    IN  /\ inflight[w] = Idle
        /\ IF RequireAuth(user_id) # 0 THEN Fail("create_order", RequireAuth(user_id))
           ELSE IF delivery_address = "" THEN Fail("create_order", 400)
           ELSE IF cart_items = {} THEN Fail("create_order", 400)
           ELSE /\ inflight' = [inflight EXCEPT ![w] =
                      [op |-> "create_order", user_id |-> user_id,
                       cart_items |-> cart_items,
                       delivery_address |-> delivery_address,
                       notes |-> raw_notes]]
                /\ UNCHANGED <<session_id_nullable, system_settings, store, observe, resp>>

\* the same request with the cart delete committed on its own and the order lost
create_order_finish_partial(w) ==
    /\ inflight[w].op = "create_order"
    /\ inflight' = [inflight EXCEPT ![w] = Idle]
    /\ cart' = cart \ CartOf(inflight[w].user_id)
    /\ Respond("create_order", 500)
    /\ UNCHANGED <<session_id_nullable, system_settings, menu_items, orders, order_items, payments, observe>>

\* POST /orders, from the subtotal to the commit
create_order_finish(w) ==
    LET rq == inflight[w]
        cart_items == ById(rq.cart_items)
        subtotal == PySum(LinePrices(cart_items))
        delivery_fee == PyInt(MIN_DELIVERY_FEE)
        total_amount == PyAdd(subtotal, delivery_fee)
        advance_amount == PyMul(total_amount, AdvanceRate)
        order == [id |-> NextId(orders), user_id |-> rq.user_id, status |-> "new",
                  subtotal |-> subtotal.v, delivery_fee |-> delivery_fee.v,
                  total_amount |-> total_amount.v, advance_amount |-> advance_amount.v,
                  delivery_address |-> Strip(rq.delivery_address),
                  notes |-> Strip(rq.notes),
                  admin_notes |-> Null]
        new_items == {[id |-> NextId(order_items) + k - 1, order_id |-> order.id,
                       menu_item_id |-> cart_items[k].menu_item_id,
                       quantity |-> cart_items[k].quantity,
                       unit_price |-> menu_items[cart_items[k].menu_item_id].price,
                       notes |-> cart_items[k].notes] : k \in 1..Len(cart_items)}
    IN  /\ rq.op = "create_order"
        /\ inflight' = [inflight EXCEPT ![w] = Idle]
        /\ IF IsError(advance_amount)
           THEN /\ Respond("create_order", 500)
                /\ UNCHANGED <<session_id_nullable, system_settings, store, observe>>
           ELSE /\ orders' = orders \cup {order}
                /\ order_items' = order_items \cup new_items
                /\ cart' = cart \ CartOf(rq.user_id)
                /\ Respond("create_order", 201)
                /\ UNCHANGED <<session_id_nullable, system_settings, menu_items, payments, observe>>

\* every status is taken
AnyStatus(status) == TRUE

\* no status is taken
NoStatus(status) == FALSE

\* status in valid_statuses
ValidStatus(status) == status \in OrderStatuses

\* GET /orders/<order_id>
get_order_detail(user_id, order_id) ==
    /\ SomeIdle
    /\ Respond("get_order_detail",
               IF RequireAuth(user_id) # 0 THEN RequireAuth(user_id)
               ELSE IF OwnOrder(order_id, user_id) = {} THEN 404 ELSE 200)
    /\ UNCHANGED <<session_id_nullable, system_settings, store, inflight, observe>>

\* PUT /orders/<order_id>/status: a status of "" stands for a missing field
update_order_status(user_id, order_id, status, raw_admin_notes) ==
    LET found == {o \in orders : o.id = order_id}
        admin_notes == Strip(raw_admin_notes)
    IN  /\ SomeIdle
        /\ IF RequireAdmin(user_id) # 0
           THEN Fail("update_order_status", RequireAdmin(user_id))
           ELSE IF found = {} THEN Fail("update_order_status", 404)
           ELSE IF status = "" THEN Fail("update_order_status", 400)
           ELSE IF ~ValidStatus(status) THEN Fail("update_order_status", 400)
           ELSE \E o \in found :
                   /\ orders' = (orders \ {o}) \cup
                         {[o EXCEPT !.status = status,
                                    !.admin_notes = IF admin_notes # "" THEN admin_notes ELSE @]}
                   /\ Respond("update_order_status", 200)
                   /\ UNCHANGED <<session_id_nullable, system_settings, menu_items, cart, order_items,
                                  payments, inflight, observe>>

\* no fee is refused
NeverOutOfRange(delivery_fee) == FALSE

\* delivery_fee < Config.MIN_DELIVERY_FEE or delivery_fee > Config.MAX_DELIVERY_FEE
OutOfRange(delivery_fee) ==
    \/ delivery_fee.v < MIN_DELIVERY_FEE * Scale
    \/ delivery_fee.v > MAX_DELIVERY_FEE * Scale

\* the same request storing whatever fee it is given, with no range test
update_delivery_fee_any(user_id, order_id, data) ==
    /\ SomeIdle
    /\ RequireAdmin(user_id) = 0
    /\ "delivery_fee" \in DOMAIN data
    /\ \E o \in {x \in orders : x.id = order_id} :
          orders' = (orders \ {o}) \cup {[o EXCEPT !.delivery_fee = data.delivery_fee * Scale]}
    /\ Respond("update_delivery_fee", 200)
    /\ UNCHANGED <<session_id_nullable, system_settings, menu_items, cart, order_items, payments,
                   inflight, observe>>

\* the same request storing the fee and leaving the totals as they were
update_delivery_fee_only(user_id, order_id, data) ==
    /\ SomeIdle
    /\ RequireAdmin(user_id) = 0
    /\ "delivery_fee" \in DOMAIN data
    /\ data.delivery_fee >= MIN_DELIVERY_FEE /\ data.delivery_fee <= MAX_DELIVERY_FEE
    /\ \E o \in {x \in orders : x.id = order_id} :
          orders' = (orders \ {o}) \cup {[o EXCEPT !.delivery_fee = data.delivery_fee * Scale]}
    /\ Respond("update_delivery_fee", 200)
    /\ UNCHANGED <<session_id_nullable, system_settings, menu_items, cart, order_items, payments,
                   inflight, observe>>

\* PUT /orders/<order_id>/delivery-fee: data may hold "delivery_fee", a whole
\* number of EGP
update_delivery_fee(user_id, order_id, data) ==
    LET found == {o \in orders : o.id = order_id}
        delivery_fee == PyToFloat(PyInt(data.delivery_fee))
    IN  /\ SomeIdle
        /\ IF RequireAdmin(user_id) # 0
           THEN Fail("update_delivery_fee", RequireAdmin(user_id))
           ELSE IF found = {} THEN Fail("update_delivery_fee", 404)
           ELSE IF "delivery_fee" \notin DOMAIN data THEN Fail("update_delivery_fee", 400)
           ELSE IF OutOfRange(delivery_fee) THEN Fail("update_delivery_fee", 400)
           ELSE \E o \in found :
                   LET total_amount == PyAdd(PyDecimal(o.subtotal), delivery_fee)
                       advance_amount == PyMul(total_amount, AdvanceRate)
                   IN  IF IsError(total_amount) \/ IsError(advance_amount)
                       THEN Fail("update_delivery_fee", 500)
                       ELSE /\ orders' = (orders \ {o}) \cup
                                  {[o EXCEPT !.delivery_fee = delivery_fee.v,
                                             !.total_amount = total_amount.v,
                                             !.advance_amount = advance_amount.v]}
                            /\ Respond("update_delivery_fee", 200)
                            /\ UNCHANGED <<session_id_nullable, system_settings, menu_items, cart,
                                           order_items, payments, inflight, observe>>

\* PUT /orders/<order_id>/notes
update_order_notes(user_id, order_id, raw_admin_notes) ==
    LET found == {o \in orders : o.id = order_id}
    IN  /\ SomeIdle
        /\ IF RequireAdmin(user_id) # 0
           THEN Fail("update_order_notes", RequireAdmin(user_id))
           ELSE IF found = {} THEN Fail("update_order_notes", 404)
           ELSE \E o \in found :
                   /\ orders' = (orders \ {o}) \cup
                         {[o EXCEPT !.admin_notes = Strip(raw_admin_notes)]}
                   /\ Respond("update_order_notes", 200)
                   /\ UNCHANGED <<session_id_nullable, system_settings, menu_items, cart, order_items,
                                  payments, inflight, observe>>

\* the loop of reorder over the order's items, on the session's view c of the
\* cart table; a new Cart row is given no session_id
RECURSIVE ReorderLoop(_, _, _)
ReorderLoop(items, c, user_id) ==
    IF items = <<>> THEN c
    ELSE LET order_item == Head(items)
             existing == {r \in c : r.user_id = user_id
                                    /\ r.menu_item_id = order_item.menu_item_id}
             existing_cart_item == CHOOSE r \in existing : \A x \in existing : r.id <= x.id
             fresh == CHOOSE i \in 1..(Cardinality(c) + 1) : i \notin Ids(c)
             cart_item == [id |-> fresh, session_id |-> Null, user_id |-> user_id,
                           menu_item_id |-> order_item.menu_item_id,
                           quantity |-> order_item.quantity, notes |-> order_item.notes]
         IN  IF existing # {}
             THEN ReorderLoop(Tail(items),
                      (c \ {existing_cart_item}) \cup
                          {[existing_cart_item EXCEPT
                              !.quantity = Increased(@, order_item.quantity)]},
                      user_id)
             ELSE ReorderLoop(Tail(items), c \cup {cart_item}, user_id)

\* POST /orders/<order_id>/reorder
reorder(user_id, order_id) ==
    LET found == OwnOrder(order_id, user_id)
        refilled == ReorderLoop(ById(ItemsOf(order_id)), cart, user_id)
    IN  /\ SomeIdle
        /\ IF RequireAuth(user_id) # 0 THEN Fail("reorder", RequireAuth(user_id))
           ELSE IF found = {} THEN Fail("reorder", 404)
           ELSE IF ViolatesNotNull(refilled \ cart) THEN Fail("reorder", 500)
           ELSE /\ \A r \in refilled : r.quantity <= MaxQty
                /\ cart' = refilled
                /\ Respond("reorder", 200)
                /\ UNCHANGED <<session_id_nullable, system_settings, menu_items, orders, order_items,
                               payments, inflight, observe>>

-----------------------------------------------------------------------------
(* routes/payments_api.py *)

\* filename.rsplit('.', 1)[1].lower() of the file names the model draws
Extension(filename) ==
    IF filename = "proof.png" THEN "png"
    ELSE IF filename = "proof.PNG" THEN "png"
    ELSE IF filename = "proof.pdf" THEN "pdf" ELSE ""
AllowedFile(filename) == Extension(filename) \in AllowedExtensions

\* a lookup that finds nothing
NoExistingPayment(order_id) == {}

\* Payment.query.filter_by(order_id=order_id).first(), as the set it is drawn from
ExistingPayment(order_id) == {p \in payments : p.order_id = order_id}

\* the payment asks for the whole total
PaymentAmountTotal(order) == order.total_amount

\* amount=order.advance_amount
PaymentAmount(order) == order.advance_amount

\* POST /payments, up to the existence check: an order_id of 0 and a method of
\* "" stand for a missing field
create_payment_check(w, user_id, order_id, method, raw_notes) ==
    LET found == OwnOrder(order_id, user_id)
        existing_payment == ExistingPayment(order_id)
    IN  /\ inflight[w] = Idle
        /\ IF RequireAuth(user_id) # 0 THEN Fail("create_payment", RequireAuth(user_id))
           ELSE IF order_id = 0 \/ method = "" THEN Fail("create_payment", 400)
           ELSE IF method \notin PaymentMethods THEN Fail("create_payment", 400)
           ELSE IF found = {} THEN Fail("create_payment", 404)
           ELSE IF existing_payment # {} THEN Fail("create_payment", 409)
           ELSE \E order \in found :
                   /\ inflight' = [inflight EXCEPT ![w] =
                         [op |-> "create_payment", order_id |-> order_id,
                          method |-> method, amount |-> PaymentAmount(order),
                          notes |-> Strip(raw_notes)]]
                   /\ UNCHANGED <<session_id_nullable, system_settings, store, observe, resp>>

\* POST /payments, the insert and the commit
create_payment_insert(w) ==
    LET rq == inflight[w]
        payment == [id |-> NextId(payments), order_id |-> rq.order_id,
                    method |-> rq.method, amount |-> rq.amount, status |-> "pending",
                    screenshot_url |-> Null, transaction_id |-> Null, notes |-> rq.notes]
    IN  /\ rq.op = "create_payment"
        /\ inflight' = [inflight EXCEPT ![w] = Idle]
        /\ payments' = payments \cup {payment}
        /\ Respond("create_payment", 201)
        /\ UNCHANGED <<session_id_nullable, system_settings, menu_items, cart, orders, order_items, observe>>

\* the upload leaves the status as it was
KeepStatus(status) == status

\* payment.status = 'pending', whatever it was
UploadedStatus(status) == "pending"

\* POST /payments/<payment_id>/upload: filename Null stands for a request
\* without a 'screenshot' part
upload_payment_proof(user_id, payment_id, filename) ==
    LET found == {p \in payments : p.id = payment_id
                     /\ \E o \in orders : o.id = p.order_id /\ o.user_id = user_id}
    IN  /\ SomeIdle
        /\ IF RequireAuth(user_id) # 0
           THEN Fail("upload_payment_proof", RequireAuth(user_id))
           ELSE IF found = {} THEN Fail("upload_payment_proof", 404)
           ELSE IF filename = Null THEN Fail("upload_payment_proof", 400)
           ELSE IF filename = "" THEN Fail("upload_payment_proof", 400)
           ELSE IF ~AllowedFile(filename) THEN Fail("upload_payment_proof", 400)
           ELSE \E payment \in found :
                   /\ payments' = (payments \ {payment}) \cup
                         {[payment EXCEPT !.screenshot_url = filename,
                                          !.status = UploadedStatus(@)]}
                   /\ Respond("upload_payment_proof", 200)
                   /\ UNCHANGED <<session_id_nullable, system_settings, menu_items, cart, orders,
                                  order_items, inflight, observe>>

\* every order becomes confirmed
AlwaysConfirmed(status) == "confirmed"

\* order.status after confirm_payment
ConfirmedOrderStatus(status) == IF status = "new" THEN "confirmed" ELSE status

\* the same request without the 404: a payment id that names no payment
\* confirms the order of that id
confirm_payment_unchecked(user_id, payment_id, raw_transaction_id, raw_notes) ==
    /\ SomeIdle
    /\ RequireAdmin(user_id) = 0
    /\ payments' = {IF p.id = payment_id THEN [p EXCEPT !.status = "confirmed"] ELSE p :
                       p \in payments}
    /\ orders' = {IF o.id = payment_id THEN [o EXCEPT !.status = ConfirmedOrderStatus(@)]
                  ELSE o : o \in orders}
    /\ Respond("confirm_payment", 200)
    /\ UNCHANGED <<session_id_nullable, system_settings, menu_items, cart, order_items,
                   inflight, observe>>

\* PUT /payments/<payment_id>/confirm
confirm_payment(user_id, payment_id, raw_transaction_id, raw_notes) ==
    LET found == {p \in payments : p.id = payment_id}
        transaction_id == Strip(raw_transaction_id)
        notes == Strip(raw_notes)
    IN  /\ SomeIdle
        /\ IF RequireAdmin(user_id) # 0 THEN Fail("confirm_payment", RequireAdmin(user_id))
           ELSE IF found = {} THEN Fail("confirm_payment", 404)
           ELSE \E payment \in found :
                   /\ payments' = (payments \ {payment}) \cup
                         {[payment EXCEPT
                             !.status = "confirmed",
                             !.transaction_id = IF transaction_id # "" THEN transaction_id ELSE @,
                             !.notes = IF notes # "" THEN notes ELSE @]}
                   /\ orders' = {IF o.id = payment.order_id
                                 THEN [o EXCEPT !.status = ConfirmedOrderStatus(@)]
                                 ELSE o : o \in orders}
                   /\ Respond("confirm_payment", 200)
                   /\ UNCHANGED <<session_id_nullable, system_settings, menu_items, cart, order_items,
                                  inflight, observe>>

\* GET /payments/order/<order_id>
get_order_payments(user_id, order_id) ==
    /\ SomeIdle
    /\ Respond("get_order_payments",
               IF RequireAuth(user_id) # 0 THEN RequireAuth(user_id)
               ELSE IF OwnOrder(order_id, user_id) = {} THEN 404 ELSE 200)
    /\ UNCHANGED <<session_id_nullable, system_settings, store, inflight, observe>>

\* any notes will do
AnyReason(notes) == TRUE

\* whether reject_payment goes on with these notes
HasReason(notes) == notes # ""

\* the same request taking pending payments only
reject_payment_pending_only(user_id, payment_id, data) ==
    LET found == {p \in payments : p.id = payment_id}
        notes == Strip(Get(data, "notes", ""))
    IN  /\ SomeIdle
        /\ IF RequireAdmin(user_id) # 0 THEN Fail("reject_payment", RequireAdmin(user_id))
           ELSE IF found = {} THEN Fail("reject_payment", 404)
           ELSE IF ~HasReason(notes) THEN Fail("reject_payment", 400)
           ELSE \E payment \in found :
                   IF payment.status # "pending" THEN Fail("reject_payment", 400)
                   ELSE /\ payments' = (payments \ {payment}) \cup
                              {[payment EXCEPT !.status = "rejected", !.notes = notes]}
                        /\ Respond("reject_payment", 200)
                        /\ UNCHANGED <<session_id_nullable, system_settings, menu_items, cart, orders,
                                       order_items, inflight, observe>>

\* PUT /payments/<payment_id>/reject: data may hold "notes"
reject_payment(user_id, payment_id, data) ==
    LET found == {p \in payments : p.id = payment_id}
        notes == Strip(Get(data, "notes", ""))
    IN  /\ SomeIdle
        /\ IF RequireAdmin(user_id) # 0 THEN Fail("reject_payment", RequireAdmin(user_id))
           ELSE IF found = {} THEN Fail("reject_payment", 404)
           ELSE IF ~HasReason(notes) THEN Fail("reject_payment", 400)
           ELSE \E payment \in found :
                   /\ payments' = (payments \ {payment}) \cup
                         {[payment EXCEPT !.status = "rejected", !.notes = notes]}
                   /\ Respond("reject_payment", 200)
                   /\ UNCHANGED <<session_id_nullable, system_settings, menu_items, cart, orders,
                                  order_items, inflight, observe>>

-----------------------------------------------------------------------------
(* routes/admin_api.py and models.SystemSettings *)

\* SystemSettings.get_value
get_value(key, default) ==
    IF key \in DOMAIN system_settings THEN system_settings[key] ELSE default

\* SystemSettings.set_value on a table t: the row of the key is updated, or
\* made
set_value(t, key, value) ==
    [k \in DOMAIN t \cup {key} |-> IF k = key THEN value ELSE t[k]]

\* POST /admin/toggle-ordering
toggle_ordering(user_id) ==
    LET current_status == get_value("ordering_enabled", "true")
        new_status == IF current_status = "true" THEN "false" ELSE "true"
    IN  /\ SomeIdle
        /\ IF RequireAdmin(user_id) # 0 THEN Fail("toggle_ordering", RequireAdmin(user_id))
           ELSE /\ system_settings' = set_value(system_settings, "ordering_enabled", new_status)
                /\ Respond("toggle_ordering", 200)
                /\ UNCHANGED <<session_id_nullable, store, inflight, observe>>

\* PUT /admin/settings: data maps each key sent to the text str(value)
update_settings(user_id, data) ==
    /\ SomeIdle
    /\ IF RequireAdmin(user_id) # 0 THEN Fail("update_settings", RequireAdmin(user_id))
       ELSE /\ system_settings' =
                  [k \in DOMAIN system_settings \cup DOMAIN data |->
                      IF k \in DOMAIN data THEN data[k] ELSE system_settings[k]]
            /\ Respond("update_settings", 200)
            /\ UNCHANGED <<session_id_nullable, store, inflight, observe>>

-----------------------------------------------------------------------------

(* Requests the specifications draw *)

\* a JSON body without keys
EmptyJson == [k \in {} |-> ""]

OrderIdInputs == {0, 1, 2}
PaymentIdInputs == {1, 2, 3}
MethodInputs == {"", "cod", "paypal"}
StatusInputs == {"", "shipped", "new", "preparing", "delivered"}
FileInputs == {Null, "", "proof.png", "proof.pdf"}
ReasonInputs == {"", " ", "late"}

-----------------------------------------------------------------------------
(* The payment ledger: payments and the status of the order they pay *)

InitPayments ==
    /\ session_id_nullable = FALSE
    /\ observe = TRUE
    /\ InitStore(TRUE)

NextPayments ==
    \/ \E w \in Workers, u \in Actors, o \in OrderIdInputs, m \in MethodInputs :
          create_payment_check(w, u, o, m, "")
    \/ \E w \in Workers : create_payment_insert(w)
    \/ \E u \in Actors, p \in PaymentIdInputs, f \in FileInputs :
          upload_payment_proof(u, p, f)
    \/ \E u \in Actors, p \in PaymentIdInputs : confirm_payment(u, p, "", " ")
    \/ \E u \in Actors, p \in PaymentIdInputs :
          \/ reject_payment(u, p, EmptyJson)
          \/ \E n \in ReasonInputs : reject_payment(u, p, [notes |-> n])
    \/ \E u \in Actors, o \in OrderIdInputs, st \in StatusInputs :
          update_order_status(u, o, st, "")

SpecPayments == InitPayments /\ [][NextPayments]_vars

-----------------------------------------------------------------------------
(* Checkout: the cart of user 1 and the two workers serving POST /orders *)

AddressInputs == {"", " ", "X"}

InitCheckout ==
    /\ session_id_nullable \in BOOLEAN
    /\ observe = TRUE
    /\ InitStore(FALSE)

NextCheckout ==
    \/ \E m \in MenuIds : add_to_cart(1, m, 1, "")
    \/ \E i \in 1..2 : remove_from_cart(1, i)
    \/ clear_cart(1)
    \/ \E w \in Workers, u \in Actors, a \in AddressInputs : create_order_read(w, u, a, "")
    \/ \E w \in Workers : create_order_finish(w)

SpecCheckout == InitCheckout /\ [][NextCheckout]_vars

-----------------------------------------------------------------------------
(* POST /cart by the anonymous session and by user 1 *)

MenuIdInputs == {0, 1, 2, 3}
QtyInputs == {-1, 0, 1, 2}

InitAdd ==
    /\ session_id_nullable \in BOOLEAN
    /\ observe = TRUE
    /\ InitStore(FALSE)

NextAdd ==
    \/ \E u \in {NoUser, 1}, m \in MenuIdInputs, q \in QtyInputs : add_to_cart(u, m, q, "")
    \/ \E u \in {NoUser, 1} : clear_cart(u)
    \/ toggle_availability(2, 1)

SpecAdd == InitAdd /\ [][NextAdd]_vars

-----------------------------------------------------------------------------
(* Orders: checkout and what the administrator does to an order *)

FeeInputs == {39, 40, 80, 81}

InitOrders ==
    /\ session_id_nullable \in BOOLEAN
    /\ observe = TRUE
    /\ InitStore(TRUE)

NextOrders ==
    \/ add_to_cart(1, 1, 1, "")
    \/ \E w \in Workers : create_order_read(w, 1, "X", "")
    \/ \E w \in Workers : create_order_finish(w)
    \/ \E u \in Users, o \in 1..2 :
          \/ update_delivery_fee(u, o, EmptyJson)
          \/ \E f \in FeeInputs : update_delivery_fee(u, o, [delivery_fee |-> f])
    \/ \E st \in {"preparing", "cancelled", "shipped"} : update_order_status(2, 1, st, "")
    \/ update_order_notes(2, 1, "call first")
    \/ update_menu_item(2, 1, [price |-> 85 * Scale])

SpecOrders == InitOrders /\ [][NextOrders]_vars

-----------------------------------------------------------------------------
(* An order after checkout: every handler that can run once the order exists *)

InitAfterCheckout ==
    /\ session_id_nullable \in BOOLEAN
    /\ observe = FALSE
    /\ InitStore(TRUE)

NextAfterCheckout ==
    \/ add_to_cart(1, 1, 1, "")
    \/ add_to_cart(NoUser, 2, 1, "")
    \/ update_cart_item(1, 1, [quantity |-> 1])
    \/ remove_from_cart(1, 1)
    \/ \E u \in {NoUser, 1} : clear_cart(u)
    \/ merge_cart(1)
    \/ reorder(1, 1)
    \/ update_order_status(2, 1, "delivered", "")
    \/ update_delivery_fee(2, 1, [delivery_fee |-> MAX_DELIVERY_FEE])
    \/ create_payment_check(1, 1, 1, "cod", "")
    \/ create_payment_insert(1)
    \/ upload_payment_proof(1, 1, "proof.png")
    \/ confirm_payment(2, 1, "", "")
    \/ reject_payment(2, 1, [notes |-> "late"])
    \/ update_menu_item(2, 1, [price |-> 85 * Scale])
    \/ toggle_availability(2, 1)

SpecAfterCheckout == InitAfterCheckout /\ [][NextAfterCheckout]_vars

-----------------------------------------------------------------------------
(* Checkout *)

\* C1: a checkout of a cart of N >= 1 entries leaves that user's cart empty
\* and creates exactly one order, of status 'new', with N OrderItems, one per
\* former cart entry, carrying its menu item, quantity and notes and the menu
\* item's price at the call
C1_CheckoutCreatesOrder ==
    [][\A w \in Workers :
          create_order_finish(w) =>
              LET rq == inflight[w]
                  created == orders' \ orders
              IN  /\ {r \in cart' : r.user_id = rq.user_id} = {}
                  /\ Cardinality(created) = 1
                  /\ \A o \in created :
                        /\ o.status = "new"
                        /\ Cardinality({i \in order_items' : i.order_id = o.id})
                              = Cardinality(rq.cart_items)
                        /\ \A r \in rq.cart_items :
                              \E i \in order_items' :
                                  /\ i.order_id = o.id
                                  /\ i.menu_item_id = r.menu_item_id
                                  /\ i.quantity = r.quantity
                                  /\ i.notes = r.notes
                                  /\ i.unit_price = menu_items[r.menu_item_id].price]_vars

\* C2: checkout is all-or-nothing: a POST /orders either commits one order
\* with all of its items and deletes the cart entries it was built from, in
\* one step, or leaves cart, orders and order items exactly as they were
C2_CheckoutAllOrNothing ==
    [][/\ \A w \in Workers, u \in Actors, a \in AddressInputs :
             create_order_read(w, u, a, "") => UNCHANGED <<cart, orders, order_items>>
       /\ \A w \in Workers :
             create_order_finish(w) =>
                 \/ UNCHANGED <<cart, orders, order_items>>
                 \/ \E o \in orders' \ orders :
                       /\ orders' = orders \cup {o}
                       /\ order_items \subseteq order_items'
                       /\ \A i \in order_items' \ order_items : i.order_id = o.id
                       /\ Cardinality(order_items' \ order_items)
                             = Cardinality(inflight[w].cart_items)
                       /\ cart' \subseteq cart
                       /\ {r \in cart' : r.user_id = o.user_id} = {}
                       /\ cart' \cap inflight[w].cart_items = {}]_vars

\* a checkout of a non-empty cart has failed, and the cart is still there
C2_FailedCheckoutKeepsCart ==
    /\ resp = [op |-> "create_order", code |-> 500]
    /\ CartOf(1) # {}
    /\ orders = {}
    /\ order_items = {}

-----------------------------------------------------------------------------
(* Orders *)

C5_OrderFrozen ==
    [][/\ \A o \in orders :
             /\ \E o2 \in orders' : o2.id = o.id /\ o2.subtotal = o.subtotal
             /\ {<<i.id, i.menu_item_id, i.quantity, i.unit_price>> : i \in ItemsOf(o.id)}
                   = {<<i.id, i.menu_item_id, i.quantity, i.unit_price>> :
                         i \in {x \in order_items' : x.order_id = o.id}}
       /\ menu_items' # menu_items => UNCHANGED <<orders, order_items>>]_vars

\* the price of an ordered menu item has been edited, the user's cart refilled
\* and the order paid and moved on
C5_PriceEditedAfterCheckout ==
    /\ \E i \in order_items : menu_items[i.menu_item_id].price # i.unit_price
    /\ \E o \in orders : o.status # "new" /\ PaymentsOf(o.id) # {}
    /\ cart # {}

-----------------------------------------------------------------------------
(* Payments *)

\* C6: create_payment for an order of the caller that already has a payment
\* answers 409, creates no payment and leaves the payments as they were
C6_SecondPaymentConflict ==
    [][\A w \in Workers, u \in Users, o \in OrderIdInputs, m \in MethodInputs \cap PaymentMethods :
          (/\ \E x \in orders : x.id = o /\ x.user_id = u
           /\ PaymentsOf(o) # {}
           /\ create_payment_check(w, u, o, m, ""))
          => /\ resp' = [op |-> "create_payment", code |-> 409]
             /\ UNCHANGED <<payments, inflight>>]_vars

\* a second create_payment has been refused and the order has its one payment
C6_ConflictAnswered ==
    /\ resp = [op |-> "create_payment", code |-> 409]
    /\ \E o \in orders : Cardinality(PaymentsOf(o.id)) = 1

\* C7: in every reachable state, whatever the interleaving of two concurrent
\* create_payment requests for one order, each order has at most one Payment
C7_OnePaymentPerOrder ==
    \A o \in orders : Cardinality(PaymentsOf(o.id)) <= 1

\* C8: confirm_payment on an existing payment sets its status to 'confirmed'
\* and, in the same commit, sets the parent order's status to 'confirmed' if and
\* only if it was 'new'; any other order status is left as it was
C8_ConfirmPayment ==
    [][\A u \in Users, p \in payments :
          (IsAdmin(u) /\ confirm_payment(u, p.id, "", " "))
          => /\ \E p2 \in payments' : p2.id = p.id /\ p2.status = "confirmed"
             /\ Cardinality(orders') = Cardinality(orders)
             /\ \A o \in orders :
                   \E o2 \in orders' :
                       /\ o2.id = o.id
                       /\ o2.status = IF o.id = p.order_id /\ o.status = "new"
                                      THEN "confirmed" ELSE o.status]_vars

\* a payment has been confirmed whose order had already been delivered
C8_ConfirmedAfterDelivery ==
    /\ resp = [op |-> "confirm_payment", code |-> 200]
    /\ \E o \in orders :
          /\ o.status = "delivered"
          /\ \E p \in PaymentsOf(o.id) : p.status = "confirmed"

\* C9: reject_payment with missing, empty or whitespace-only notes answers 400
\* and leaves the payment's status and notes and the parent order unchanged,
\* whatever the payment's status was
C9_RejectNeedsReason ==
    [][\A u \in Users, p \in payments :
          /\ (IsAdmin(u) /\ reject_payment(u, p.id, EmptyJson))
                => /\ resp' = [op |-> "reject_payment", code |-> 400]
                   /\ UNCHANGED <<payments, orders>>
          /\ \A n \in {"", " "} :
                (IsAdmin(u) /\ reject_payment(u, p.id, [notes |-> n]))
                   => /\ resp' = [op |-> "reject_payment", code |-> 400]
                      /\ UNCHANGED <<payments, orders>>]_vars

\* a rejection without a reason has been refused on a confirmed payment
C9_RejectionRefused ==
    /\ resp = [op |-> "reject_payment", code |-> 400]
    /\ \E p \in payments : p.status = "confirmed"

-----------------------------------------------------------------------------
(* Cart *)

\* C10: for any owner, anonymous session or authenticated user, and any
\* available menu item, an add-to-cart of a quantity q > 0 leaves exactly one
\* cart entry for that (owner, item), holding q more than the entry held
\* before (q when there was none): two successive adds of q1 and q2 give one
\* entry of q1 + q2
C10_AddAccumulates ==
    [][\A u \in {NoUser, 1}, m \in MenuIds, q \in {1, 2} :
          (menu_items[m].is_available /\ add_to_cart(u, m, q, ""))
          => LET before == {r \in cart : r.user_id = u /\ r.menu_item_id = m}
                 after == {r \in cart' : r.user_id = u /\ r.menu_item_id = m}
             IN  /\ Cardinality(after) = 1
                 /\ \A a \in after :
                       /\ before = {} => a.quantity = q
                       /\ \A b \in before : a.quantity = b.quantity + q]_vars

-----------------------------------------------------------------------------
(* The carts of the anonymous session and of user 1 under every cart
   operation and checkout, the requests served one after the other *)

CartQtyInputs == {1, 2}

InitCart ==
    /\ session_id_nullable \in BOOLEAN
    /\ observe = FALSE
    /\ InitStore(TRUE)

CartRequest ==
    \/ \E u \in {NoUser, 1}, m \in MenuIds, q \in CartQtyInputs : add_to_cart(u, m, q, "")
    \/ \E u \in {NoUser, 1}, i \in 1..4, q \in CartQtyInputs :
          update_cart_item(u, i, [quantity |-> q])
    \/ \E u \in {NoUser, 1}, i \in 1..4 : remove_from_cart(u, i)
    \/ \E u \in {NoUser, 1} : clear_cart(u)
    \/ merge_cart(1)
    \/ reorder(1, 1)
    \/ create_order_read(1, 1, "X", "")

NextCart ==
    \/ inflight[1] = Idle /\ CartRequest
    \/ create_order_finish(1)

SpecCart == InitCart /\ [][NextCart]_vars

-----------------------------------------------------------------------------
(* Login: the anonymous cart, the cart of user 1, merge and reorder *)

InitMerge ==
    /\ session_id_nullable \in BOOLEAN
    /\ observe = TRUE
    /\ InitStore(TRUE)

NextMerge ==
    \/ \E u \in {NoUser, 1}, m \in MenuIds, q \in CartQtyInputs : add_to_cart(u, m, q, "")
    \/ add_to_cart(NoUser, 1, 1, "n")
    \/ add_to_cart(1, 1, 1, "u")
    \/ \E u \in {NoUser, 1} : clear_cart(u)
    \/ \E u \in {NoUser, 1} : merge_cart(u)
    \/ reorder(1, 1)

SpecMerge == InitMerge /\ [][NextMerge]_vars

-----------------------------------------------------------------------------
(* Cart invariants *)

\* C11: after any sequence of cart add, update, remove, clear, merge, reorder
\* and checkout operations there is at most one cart entry for each
\* (owner, menu item) pair
C11_OneEntryPerOwnerItem ==
    \A r1, r2 \in cart :
        (/\ r1.user_id = r2.user_id
         /\ r1.session_id = r2.session_id
         /\ r1.menu_item_id = r2.menu_item_id) => r1 = r2

\* the anonymous session and user 1 both hold the same item, and user 1's
\* entry has been added to more than once
C11_AccumulatedCarts ==
    \E g \in CartOfSession(GetSessionId), r \in CartOf(1) :
        /\ g.menu_item_id = r.menu_item_id
        /\ r.quantity > 2
        /\ Cardinality(CartOf(1)) = 2

\* C12: every cart entry has exactly one owner, its user id or its session id
\* and never both or neither, and add as guest, add as logged-in user, merge
\* and reorder each succeed under the column constraints of the cart table
C12_OneOwnerAndStored ==
    [][/\ \A r \in cart' : (r.user_id # NoUser) # (r.session_id # Null)
       /\ \A u \in {NoUser, 1}, m \in MenuIds, q \in CartQtyInputs :
             add_to_cart(u, m, q, "") => resp'.code = 200
       /\ merge_cart(1) => resp'.code = 200
       /\ reorder(1, 1) => resp'.code = 200]_vars

-----------------------------------------------------------------------------
(* Merge *)

\* the quantity an owner's rows hold of a menu item
Quantity(rows, m) ==
    LET rs == {r \in rows : r.menu_item_id = m}
    IN  IF rs = {} THEN 0 ELSE (CHOOSE r \in rs : TRUE).quantity

\* the notes an owner's rows hold for a menu item
Notes(rows, m) ==
    LET rs == {r \in rows : r.menu_item_id = m}
    IN  IF rs = {} THEN "" ELSE (CHOOSE r \in rs : TRUE).notes

\* C13: after merge(user, session) the user's quantity of every menu item is
\* the user's quantity before plus the anonymous session's quantity before,
\* every entry of the user has the user id set and the session id cleared, and
\* a summed entry takes the guest's notes only if the user's notes were empty
C13_MergeSums ==
    [][merge_cart(1) =>
          /\ \A m \in MenuIds :
                /\ Quantity({r \in cart' : r.user_id = 1}, m)
                      = Quantity(CartOf(1), m) + Quantity(CartOfSession(GetSessionId), m)
                /\ Quantity(CartOf(1), m) > 0 =>
                      Notes({r \in cart' : r.user_id = 1}, m)
                          = IF Notes(CartOf(1), m) = ""
                            THEN Notes(CartOfSession(GetSessionId), m)
                            ELSE Notes(CartOf(1), m)
          /\ \A r \in cart' : r.user_id = 1 => r.session_id = Null]_vars

\* C14: a second merge for the same user and session, with no cart addition
\* since the first, leaves every quantity in the user's cart as the first
\* merge left it
C14_SecondMergeChangesNothing ==
    [][(resp = [op |-> "merge_cart", code |-> 200] /\ merge_cart(1))
          => \A m \in MenuIds :
                Quantity({r \in cart' : r.user_id = 1}, m) = Quantity(CartOf(1), m)]_vars

-----------------------------------------------------------------------------
(* Delivery fee *)

\* C15: update_delivery_fee with a fee below the configured minimum or above
\* the configured maximum answers 400 and leaves the order's delivery_fee,
\* total_amount, advance_amount, subtotal and status unchanged
C15_FeeOutOfRangeRefused ==
    [][\A o \in orders, f \in {x \in FeeInputs : x < MIN_DELIVERY_FEE \/ x > MAX_DELIVERY_FEE} :
          update_delivery_fee(2, o.id, [delivery_fee |-> f])
              => /\ resp' = [op |-> "update_delivery_fee", code |-> 400]
                 /\ orders' = orders]_vars

\* a delivery-fee update has been refused on an existing order
C15_FeeRefused ==
    /\ resp = [op |-> "update_delivery_fee", code |-> 400]
    /\ orders # {}

\* C16: update_delivery_fee with a fee inside [min_fee, max_fee] sets
\* delivery_fee to that fee, total_amount to subtotal + fee and advance_amount
\* to total_amount * advance percentage / 100, and leaves subtotal, status,
\* every OrderItem and every Payment unchanged
C16_FeeUpdateRecomputes ==
    [][\A o \in orders, f \in {x \in FeeInputs : x >= MIN_DELIVERY_FEE /\ x <= MAX_DELIVERY_FEE} :
          update_delivery_fee(2, o.id, [delivery_fee |-> f])
              => /\ \E o2 \in orders' :
                       /\ o2.id = o.id
                       /\ o2.delivery_fee = f * Scale
                       /\ o2.total_amount = o.subtotal + f * Scale
                       /\ o2.advance_amount * 100 = o2.total_amount * ADVANCE_PAYMENT_PERCENTAGE
                       /\ o2.subtotal = o.subtotal
                       /\ o2.status = o.status
                 /\ UNCHANGED <<order_items, payments>>]_vars

-----------------------------------------------------------------------------
(* A guest fills a cart, logs in as user 1, merges and checks out *)

InitScenario ==
    /\ session_id_nullable \in BOOLEAN
    /\ observe = TRUE
    /\ InitStore(FALSE)

ScenarioRequest ==
    \/ \E m \in MenuIds, q \in CartQtyInputs : add_to_cart(NoUser, m, q, "")
    \/ \E u \in {NoUser, 1} : clear_cart(u)
    \/ merge_cart(1)
    \/ \E a \in AddressInputs : create_order_read(1, 1, a, "")

NextScenario ==
    \/ inflight[1] = Idle /\ ScenarioRequest
    \/ create_order_finish(1)

SpecScenario == InitScenario /\ [][NextScenario]_vars

\* item A (menu item 1, price 65) twice and item B (menu item 2, price 45) once
ScenarioCart(rows) ==
    /\ Cardinality(rows) = 2
    /\ Quantity(rows, 1) = 2
    /\ Quantity(rows, 2) = 1

\* C17: with the guest cart holding A x 2 and B x 1 (subtotal 175), merge
\* leaves user 1's cart holding exactly A x 2 and B x 1; checkout of that cart
\* with a non-empty address answers 201, yields an order with subtotal 175,
\* delivery_fee 40, total_amount 215 and advance_amount 43, and empties the
\* user's cart
C17_EndToEnd ==
    [][/\ (ScenarioCart(CartOfSession(GetSessionId)) /\ CartOf(1) = {} /\ merge_cart(1))
            => /\ resp'.code = 200
               /\ ScenarioCart({r \in cart' : r.user_id = 1})
       /\ (ScenarioCart(CartOf(1)) /\ create_order_finish(1))
            => /\ resp' = [op |-> "create_order", code |-> 201]
               /\ \E o \in orders' \ orders :
                     /\ o.user_id = 1
                     /\ o.subtotal = 175 * Scale
                     /\ o.delivery_fee = 40 * Scale
                     /\ o.total_amount = 215 * Scale
                     /\ o.advance_amount = 43 * Scale
               /\ {r \in cart' : r.user_id = 1} = {}]_vars

-----------------------------------------------------------------------------
(* Checkout validation *)

\* C18: checkout by a user with no cart entries answers 400, and checkout
\* with a missing delivery address answers 400; in both cases no Order or
\* OrderItem is created and every cart is unchanged
C18_CheckoutRefused ==
    [][\A w \in Workers, a \in AddressInputs :
          (create_order_read(w, 1, a, "") /\ (a = "" \/ CartOf(1) = {}))
              => /\ resp' = [op |-> "create_order", code |-> 400]
                 /\ inflight' = inflight
                 /\ UNCHANGED <<orders, order_items, cart>>]_vars

\* a checkout was refused while the user's cart held entries: the address
\* was missing
C18_RefusedWithCart ==
    /\ resp = [op |-> "create_order", code |-> 400]
    /\ CartOf(1) # {}
    /\ orders = {}
    /\ order_items = {}

-----------------------------------------------------------------------------
(* add-to-cart validation *)

\* C20: add-to-cart fails, leaving every cart unchanged, when the menu item
\* does not exist (404 for a positive quantity), when the menu item exists
\* but is unavailable (400), or when quantity <= 0 (400)
C20_AddRefused ==
    [][\A u \in {NoUser, 1}, m \in MenuIdInputs, q \in QtyInputs :
          (m \notin MenuIds \/ q <= 0 \/ ~menu_items[m].is_available)
              => \/ /\ cart' = cart
                    /\ resp'.op = "add_to_cart"
                    /\ resp'.code = IF m \notin MenuIds /\ m # 0 /\ q > 0 THEN 404 ELSE 400
                 \/ ~add_to_cart(u, m, q, "")]_vars

\* an add of an unavailable item has been refused while carts hold entries
C20_UnavailableRefused ==
    /\ resp = [op |-> "add_to_cart", code |-> 400]
    /\ ~menu_items[1].is_available
    /\ cart # {}

-----------------------------------------------------------------------------
(* Cart entries of two anonymous browsers and of users 1 and 2, updated and
   removed by every caller *)

\* the browsers that come without a logged-in user
Browsers == {"a", "b"}

\* the cart_session_id get_session_id stores in a browser's session cookie
SessionIdOf(browser) == GetSessionId

InitOwnership ==
    /\ session_id_nullable \in BOOLEAN
    /\ observe = TRUE
    /\ InitStore(FALSE)

NextOwnership ==
    \/ \E u \in Actors : add_to_cart(u, 1, 1, "")
    \/ \E u \in Actors, i \in 1..3, q \in CartQtyInputs :
          update_cart_item(u, i, [quantity |-> q, notes |-> "n"])
    \/ \E u \in Actors, i \in 1..3 : remove_from_cart(u, i)

SpecOwnership == InitOwnership /\ [][NextOwnership]_vars

\* C21: update and remove of a cart entry whose owner is not the caller
\* answer 403 and leave the entry as it was: a user on another user's entry,
\* a user on an anonymous entry, an anonymous caller on a user's entry, and
\* an anonymous browser on the entry of another anonymous browser (so of two
\* browsers at most one passes the ownership test of an anonymous entry)
C21_ForeignEntryRefused ==
    [][/\ \A u \in Actors, r \in cart, q \in CartQtyInputs :
             (r.user_id # u /\ update_cart_item(u, r.id, [quantity |-> q, notes |-> "n"]))
                 => /\ resp' = [op |-> "update_cart_item", code |-> 403]
                    /\ cart' = cart
       /\ \A u \in Actors, r \in cart :
             (r.user_id # u /\ remove_from_cart(u, r.id))
                 => /\ resp' = [op |-> "remove_from_cart", code |-> 403]
                    /\ cart' = cart
       /\ \A r \in cart :
             r.user_id = NoUser => \E b \in Browsers : r.session_id # SessionIdOf(b)]_vars

-----------------------------------------------------------------------------
(* The status of order 1 under the administrator's updates and the
   confirmation of its payment *)

StatusValues == OrderStatuses \cup {"", "shipped"}
AdminNotesInputs == {"", "n"}

InitStatus ==
    /\ session_id_nullable = FALSE
    /\ observe = TRUE
    /\ InitStore(TRUE)

NextStatus ==
    \/ \E u \in Users, o \in 1..2, st \in StatusValues, an \in AdminNotesInputs :
          update_order_status(u, o, st, an)
    \/ create_payment_check(1, 1, 1, "cod", "")
    \/ create_payment_insert(1)
    \/ confirm_payment(2, 1, "", "")

SpecStatus == InitStatus /\ [][NextStatus]_vars

\* C22: every order's status is one of new, confirmed, preparing, on_way,
\* delivered, cancelled; update_order_status with any other value, or with
\* none, answers 400 and leaves the order's status and admin notes unchanged
C22_StatusValid ==
    [][/\ \A o \in orders \cup orders' :
             o.status \in {"new", "confirmed", "preparing", "on_way", "delivered", "cancelled"}
       /\ \A o \in orders, st \in StatusValues \ OrderStatuses, an \in AdminNotesInputs :
             update_order_status(2, o.id, st, an)
                 => /\ resp' = [op |-> "update_order_status", code |-> 400]
                    /\ orders' = orders]_vars

\* a status update has been refused on an order the administrator had
\* already moved and annotated
C22_InvalidStatusRefused ==
    /\ resp = [op |-> "update_order_status", code |-> 400]
    /\ \E o \in orders : o.status = "on_way" /\ o.admin_notes = "n"

\* C23: no transition graph: for every pair (s, t) of the six statuses, the
\* administrator's update_order_status(t) on an order in status s answers 200
\* and leaves the order in status t
C23_AnyTransition ==
    [][\A o \in orders, an \in AdminNotesInputs,
          t \in {"new", "confirmed", "preparing", "on_way", "delivered", "cancelled"} :
          update_order_status(2, o.id, t, an)
              => /\ resp' = [op |-> "update_order_status", code |-> 200]
                 /\ \E o2 \in orders' : o2.id = o.id /\ o2.status = t]_vars

\* an order whose payment was confirmed has been put back to new
C23_BackToNew ==
    /\ resp = [op |-> "update_order_status", code |-> 200]
    /\ \E o \in orders :
          /\ o.status = "new"
          /\ \E p \in PaymentsOf(o.id) : p.status = "confirmed"

-----------------------------------------------------------------------------
(* Order 1 under every handler that writes, the requests served one after
   the other *)

InitFrame ==
    /\ session_id_nullable \in BOOLEAN
    /\ observe = FALSE
    /\ InitStore(TRUE)

FrameRequest ==
    \/ add_to_cart(1, 1, 1, "")
    \/ add_to_cart(NoUser, 2, 1, "")
    \/ update_cart_item(1, 1, [quantity |-> 2])
    \/ remove_from_cart(1, 1)
    \/ \E u \in {NoUser, 1} : clear_cart(u)
    \/ merge_cart(1)
    \/ reorder(1, 1)
    \/ create_order_read(1, 1, "X", "")
    \/ \E st \in {"new", "preparing"} : update_order_status(2, 1, st, "")
    \/ update_delivery_fee(2, 1, [delivery_fee |-> MAX_DELIVERY_FEE])
    \/ update_order_notes(2, 1, "n")
    \/ create_payment_check(1, 1, 1, "cod", "")
    \/ upload_payment_proof(1, 1, "proof.png")
    \/ confirm_payment(2, 1, "", "")
    \/ reject_payment(2, 1, [notes |-> "late"])

NextFrame ==
    \/ inflight[1] = Idle /\ FrameRequest
    \/ create_order_finish(1)
    \/ create_payment_insert(1)

SpecFrame == InitFrame /\ [][NextFrame]_vars

\* C24: the status of an existing order changes only in an administrator's
\* update_order_status or in a confirm_payment that moves it from new to
\* confirmed; every other step leaves the status of every existing order
\* unchanged
C24_StatusFrame ==
    [][\A o \in orders, o2 \in orders' :
          (o2.id = o.id /\ o2.status # o.status)
              => \/ update_order_status(2, o.id, o2.status, "")
                 \/ /\ o.status = "new"
                    /\ o2.status = "confirmed"
                    /\ \E p \in PaymentsOf(o.id) : confirm_payment(2, p.id, "", "")]_vars

\* order 1 has left new, carries a rejected payment with a proof, and the
\* user's cart was refilled
C24_BusyOrder ==
    /\ \E o \in orders : o.status = "preparing" /\ o.admin_notes = "n"
    /\ \E p \in payments : p.status = "rejected" /\ p.screenshot_url # Null
    /\ cart # {}

-----------------------------------------------------------------------------
(* Payment states *)

\* C25: a successful upload_payment_proof by the order's owner sets the
\* payment's status to pending whatever it was (pending, rejected or
\* confirmed) and sets the proof reference; the payment's amount and method
\* and the parent order are unchanged
C25_UploadResetsToPending ==
    [][\A p \in payments, f \in FileInputs :
          (resp' = [op |-> "upload_payment_proof", code |-> 200] /\ upload_payment_proof(1, p.id, f))
              => /\ \E p2 \in payments' :
                       /\ p2.id = p.id
                       /\ p2.status = "pending"
                       /\ p2.screenshot_url = f
                       /\ p2.amount = p.amount
                       /\ p2.method = p.method
                 /\ Cardinality(payments') = Cardinality(payments)
                 /\ orders' = orders]_vars

\* the only payment of an order that a confirmation moved to confirmed is
\* pending again after an upload
C25_ConfirmedBackToPending ==
    /\ resp = [op |-> "upload_payment_proof", code |-> 200]
    /\ Cardinality(payments) = 1
    /\ \E p \in payments :
          /\ p.status = "pending"
          /\ \E o \in orders : o.id = p.order_id /\ o.status = "confirmed"

\* C26 as stated: once a payment's status is confirmed, no later operation
\* changes it to anything other than confirmed
C26_ConfirmedTerminal ==
    [][\A p \in payments, p2 \in payments' :
          (p.status = "confirmed" /\ p2.id = p.id) => p2.status = "confirmed"]_vars

\* C26: a confirmed payment stays in the table, and its status leaves
\* confirmed in two kinds of step only: its owner's upload_payment_proof,
\* for pending, and the administrator's reject_payment with a reason, for
\* rejected; confirm_payment leaves it confirmed
C26_ConfirmedLeftByUploadOrReject ==
    [][\A p \in payments :
          p.status = "confirmed"
              => \E p2 \in payments' :
                    /\ p2.id = p.id
                    /\ \/ p2.status = "confirmed"
                       \/ /\ p2.status = "pending"
                          /\ \E f \in FileInputs : upload_payment_proof(1, p.id, f)
                       \/ /\ p2.status = "rejected"
                          /\ p2.notes # ""
                          /\ \E n \in ReasonInputs : reject_payment(2, p.id, [notes |-> n])]_vars

\* the only payment of an order that a confirmation moved to confirmed has
\* been rejected
C26_ConfirmedThenRejected ==
    /\ resp = [op |-> "reject_payment", code |-> 200]
    /\ Cardinality(payments) = 1
    /\ \E p \in payments :
          /\ p.status = "rejected"
          /\ \E o \in orders : o.id = p.order_id /\ o.status = "confirmed"

-----------------------------------------------------------------------------
(* The payment of order 1 and the administrator's fee updates *)

InitAmount ==
    /\ session_id_nullable = FALSE
    /\ observe = TRUE
    /\ InitStore(TRUE)

NextAmount ==
    \/ \E w \in Workers, m \in {"cod", "instapay"} : create_payment_check(w, 1, 1, m, "")
    \/ \E w \in Workers : create_payment_insert(w)
    \/ \E f \in FeeInputs : update_delivery_fee(2, 1, [delivery_fee |-> f])
    \/ upload_payment_proof(1, 1, "proof.png")
    \/ confirm_payment(2, 1, "t", "")
    \/ reject_payment(2, 1, [notes |-> "late"])

SpecAmount == InitAmount /\ [][NextAmount]_vars

\* C27: a payment's amount is the parent order's advance_amount when
\* create_payment runs, and no later step changes it, an update_delivery_fee
\* on the order included
C27_AmountFrozen ==
    [][/\ \A p \in payments : \E p2 \in payments' : p2.id = p.id /\ p2.amount = p.amount
       /\ \A w \in Workers :
             create_payment_insert(w)
                 => \A p2 \in payments' \ payments :
                       \E o \in orders : o.id = p2.order_id /\ p2.amount = o.advance_amount]_vars

\* a delivery-fee update in the allowed range has been served after the
\* payment was made
C27_FeeUpdateAfterPayment ==
    /\ resp = [op |-> "update_delivery_fee", code |-> 500]
    /\ \E p \in payments : p.amount = 43 * Scale

-----------------------------------------------------------------------------
(* Order 1 and its payment, asked for by its owner (user 1) and by user 2 *)

InitForeign ==
    /\ session_id_nullable \in BOOLEAN
    /\ observe = TRUE
    /\ InitStore(TRUE)

ForeignRequest ==
    \/ \E u \in Users, o \in 1..2 : get_order_detail(u, o)
    \/ \E u \in Users, o \in 1..2 : get_order_payments(u, o)
    \/ \E u \in Users, o \in 1..2 : reorder(u, o)
    \/ \E u \in Users, o \in 1..2, m \in MethodInputs : create_payment_check(1, u, o, m, "")
    \/ \E u \in Users, p \in 1..2, f \in FileInputs : upload_payment_proof(u, p, f)
    \/ reject_payment(2, 1, [notes |-> "late"])
    \/ clear_cart(1)

NextForeign ==
    \/ inflight[1] = Idle /\ ForeignRequest
    \/ create_payment_insert(1)

SpecForeign == InitForeign /\ [][NextForeign]_vars

\* C28: get order, reorder, create_payment, upload_proof and get order
\* payments by user 2 on order 1 or payment 1, which exist and belong to
\* user 1, answer what they answer on an id that does not exist, 404 when
\* the rest of the request is valid, and change nothing
C28_ForeignAsMissing ==
    [][/\ \A o \in 1..2 :
             /\ get_order_detail(2, o) => resp' = [op |-> "get_order_detail", code |-> 404]
             /\ get_order_payments(2, o) => resp' = [op |-> "get_order_payments", code |-> 404]
             /\ reorder(2, o) => resp' = [op |-> "reorder", code |-> 404]
             /\ \A m \in MethodInputs :
                   create_payment_check(1, 2, o, m, "")
                       => resp' = [op |-> "create_payment",
                                   code |-> IF m \in PaymentMethods THEN 404 ELSE 400]
       /\ \A p \in 1..2, f \in FileInputs :
             upload_payment_proof(2, p, f)
                 => resp' = [op |-> "upload_payment_proof", code |-> 404]
       /\ (\E o \in 1..2, m \in MethodInputs, p \in 1..2, f \in FileInputs :
              \/ get_order_detail(2, o)
              \/ get_order_payments(2, o)
              \/ reorder(2, o)
              \/ create_payment_check(1, 2, o, m, "")
              \/ upload_payment_proof(2, p, f))
             => UNCHANGED <<store, inflight>>]_vars

\* a request has been answered 404 while order 1 has a payment that is not
\* pending and holds a proof
C28_NotFoundWithPayment ==
    /\ resp.code = 404
    /\ \E p \in payments : p.status = "rejected" /\ p.screenshot_url # Null
    /\ orders # {}

-----------------------------------------------------------------------------
(* Reorder *)

\* C29: reorder by the order's owner answers 200; for every menu item the
\* owner's cart quantity afterwards is the quantity before plus the
\* quantity of that item in the order, every entry of the cart is the
\* user's, and the order, its items and its payments are unchanged
C29_ReorderAdds ==
    [][reorder(1, 1)
          => /\ resp' = [op |-> "reorder", code |-> 200]
             /\ \A m \in MenuIds :
                   Quantity({r \in cart' : r.user_id = 1}, m)
                       = Quantity(CartOf(1), m) + Quantity(ItemsOf(1), m)
             /\ UNCHANGED <<orders, order_items, payments>>]_vars

-----------------------------------------------------------------------------
(* The menu under the administrator's requests *)

\* prices in hundredths
PriceInputs == {-500, 0, 8500}

InitMenu ==
    /\ session_id_nullable = FALSE
    /\ observe = TRUE
    /\ InitStore(FALSE)

NextMenu ==
    \/ \E u \in Users : create_menu_item(u, EmptyJson)
    \/ \E u \in Users, p \in PriceInputs : create_menu_item(u, [price |-> p])
    \/ \E u \in Users, i \in 1..MaxMenu, p \in PriceInputs : update_menu_item(u, i, [price |-> p])
    \/ \E u \in Users, i \in 1..MaxMenu : toggle_availability(u, i)

SpecMenu == InitMenu /\ [][NextMenu]_vars

\* C30: every menu item has price >= 0, whatever price create_menu_item and
\* update_menu_item are called with
C30_PriceNonNegative == \A m \in DOMAIN menu_items : menu_items[m].price >= 0

\* C31: no pending-only guard: confirm_payment on a rejected or confirmed
\* payment answers 200 and leaves it confirmed; reject_payment with a reason
\* on a confirmed or rejected payment answers 200 and leaves it rejected,
\* the parent order's status staying as it was
C31_NoPendingGuard ==
    [][\A p \in payments :
          p.status \in {"rejected", "confirmed"}
              => /\ confirm_payment(2, p.id, "", " ")
                     => /\ resp' = [op |-> "confirm_payment", code |-> 200]
                        /\ \E p2 \in payments' : p2.id = p.id /\ p2.status = "confirmed"
                 /\ \A n \in {x \in ReasonInputs : Strip(x) # ""} :
                       reject_payment(2, p.id, [notes |-> n])
                           => /\ resp' = [op |-> "reject_payment", code |-> 200]
                              /\ \E p2 \in payments' : p2.id = p.id /\ p2.status = "rejected"
                              /\ orders' = orders]_vars

\* a payment that carries a rejection reason has been confirmed
C31_RejectedThenConfirmed ==
    /\ resp = [op |-> "confirm_payment", code |-> 200]
    /\ \E p \in payments : p.status = "confirmed" /\ p.notes = "late"

-----------------------------------------------------------------------------
(* Quantities of cart entries and order items, the requests served one after
   the other *)

InitQuantity ==
    /\ session_id_nullable \in BOOLEAN
    /\ observe = TRUE
    /\ InitStore(TRUE)

QuantityRequest ==
    \/ \E u \in {NoUser, 1}, q \in QtyInputs : add_to_cart(u, 1, q, "")
    \/ \E u \in {NoUser, 1}, i \in 1..2 : update_cart_item(u, i, EmptyJson)
    \/ \E u \in {NoUser, 1}, i \in 1..2, q \in QtyInputs : update_cart_item(u, i, [quantity |-> q])
    \/ merge_cart(1)
    \/ reorder(1, 1)
    \/ create_order_read(1, 1, "X", "")

NextQuantity ==
    \/ inflight[1] = Idle /\ QuantityRequest
    \/ create_order_finish(1)

SpecQuantity == InitQuantity /\ [][NextQuantity]_vars

\* C32: every cart entry and every order item has quantity >= 1 after any
\* sequence of add, update, merge, reorder and checkout; an update with
\* quantity <= 0 answers 400 and leaves the cart unchanged
C32_QuantityPositive ==
    [][/\ \A r \in cart \cup cart' : r.quantity >= 1
       /\ \A i \in order_items \cup order_items' : i.quantity >= 1
       /\ \A u \in {NoUser, 1}, r \in cart, q \in {x \in QtyInputs : x <= 0} :
             update_cart_item(u, r.id, [quantity |-> q])
                 => /\ resp' = [op |-> "update_cart_item", code |-> 400]
                    /\ cart' = cart]_vars

\* an update has been refused while the cart holds an entry that was added to
C32_UpdateRefused ==
    /\ resp = [op |-> "update_cart_item", code |-> 400]
    /\ \E r \in cart : r.quantity > 1

-----------------------------------------------------------------------------
(* The administrator's operations called by everybody *)

InitAdmin ==
    /\ session_id_nullable = FALSE
    /\ observe = TRUE
    /\ InitStore(TRUE)

NextAdmin ==
    \/ \E u \in Actors, o \in 1..2, st \in {"preparing", "delivered"} :
          update_order_status(u, o, st, "n")
    \/ \E u \in Actors, o \in 1..2 : update_delivery_fee(u, o, [delivery_fee |-> MAX_DELIVERY_FEE])
    \/ \E u \in Actors, o \in 1..2 : update_order_notes(u, o, "m")
    \/ \E u \in Actors, p \in 1..2 : confirm_payment(u, p, "t", "")
    \/ \E u \in Actors, p \in 1..2 : reject_payment(u, p, [notes |-> "late"])
    \/ create_payment_check(1, 1, 1, "cod", "")
    \/ create_payment_insert(1)

SpecAdmin == InitAdmin /\ [][NextAdmin]_vars

\* C33: update_order_status, update_delivery_fee, update_order_notes,
\* confirm_payment and reject_payment answer 401 to a caller who is not
\* logged in and 403 to a user who is not an administrator, and change no
\* order and no payment
C33_AdminOnly ==
    [][\A u \in {NoUser, 1}, k \in 1..2 :
          LET code == IF u = NoUser THEN 401 ELSE 403
          IN  /\ (\E st \in {"preparing", "delivered"} : update_order_status(u, k, st, "n"))
                    => resp' = [op |-> "update_order_status", code |-> code]
              /\ update_delivery_fee(u, k, [delivery_fee |-> MAX_DELIVERY_FEE])
                    => resp' = [op |-> "update_delivery_fee", code |-> code]
              /\ update_order_notes(u, k, "m")
                    => resp' = [op |-> "update_order_notes", code |-> code]
              /\ confirm_payment(u, k, "t", "")
                    => resp' = [op |-> "confirm_payment", code |-> code]
              /\ reject_payment(u, k, [notes |-> "late"])
                    => resp' = [op |-> "reject_payment", code |-> code]
              /\ (\/ \E st \in {"preparing", "delivered"} : update_order_status(u, k, st, "n")
                  \/ update_delivery_fee(u, k, [delivery_fee |-> MAX_DELIVERY_FEE])
                  \/ update_order_notes(u, k, "m")
                  \/ confirm_payment(u, k, "t", "")
                  \/ reject_payment(u, k, [notes |-> "late"]))
                    => UNCHANGED <<orders, payments>>]_vars

\* a user who is not an administrator has been refused while order 1 has a
\* pending payment
C33_UserRefused ==
    /\ resp.code = 403
    /\ \E p \in payments : p.status = "pending"
    /\ \E o \in orders : o.status = "new"

-----------------------------------------------------------------------------
(* The settings store, checkout and the delivery fee of order 1, the requests
   served one after the other *)

SettingsInputs ==
    {[delivery_fee_min |-> "50"], [delivery_fee_max |-> "60"], [advance_percentage |-> "50"]}

InitSettings ==
    /\ session_id_nullable \in BOOLEAN
    /\ observe = TRUE
    /\ InitStore(TRUE)

SettingsRequest ==
    \/ \E u \in Users : toggle_ordering(u)
    \/ \E u \in Users, d \in SettingsInputs : update_settings(u, d)
    \/ add_to_cart(1, 1, 1, "")
    \/ create_order_read(1, 1, "X", "")
    \/ \E f \in FeeInputs : update_delivery_fee(2, 1, [delivery_fee |-> f])

NextSettings ==
    \/ inflight[1] = Idle /\ SettingsRequest
    \/ create_order_finish(1)

SpecSettings == InitSettings /\ [][NextSettings]_vars

\* C34: while the setting ordering_enabled is 'false' no checkout creates an
\* order; once it has been toggled back to 'true' a checkout creates one
C34_OrderingGate ==
    [][create_order_finish(1)
          => /\ get_value("ordering_enabled", "true") = "false" => orders' = orders
             /\ ("ordering_enabled" \in DOMAIN system_settings
                    /\ system_settings["ordering_enabled"] = "true")
                   => /\ resp' = [op |-> "create_order", code |-> 201]
                      /\ Cardinality(orders') = Cardinality(orders) + 1]_vars

\* the number a setting's text stands for
SettingNumber(key, default) ==
    LET text == get_value(key, default)
    IN  CASE text = "40" -> 40
          [] text = "50" -> 50
          [] text = "60" -> 60
          [] text = "80" -> 80

\* C35: update_delivery_fee takes its accepted range from the settings
\* delivery_fee_min and delivery_fee_max (40 and 80 until the administrator
\* changes them): a fee is answered 400 exactly when it is outside them
C35_FeeRangeFromSettings ==
    [][\A f \in FeeInputs :
          update_delivery_fee(2, 1, [delivery_fee |-> f])
              => (resp'.code = 400
                     <=> \/ f < SettingNumber("delivery_fee_min", "40")
                         \/ f > SettingNumber("delivery_fee_max", "80"))]_vars

-----------------------------------------------------------------------------
(* Guest carts *)

\* C36: guest carts are isolated per anonymous session: no cart entry is in
\* the carts of two distinct anonymous browsers (the rows GET /cart returns
\* to a browser, DELETE /cart deletes for it and merge moves from it)
C36_GuestCartsDisjoint ==
    \A b1, b2 \in Browsers :
        b1 # b2 => CartOfSession(SessionIdOf(b1)) \cap CartOfSession(SessionIdOf(b2)) = {}

-----------------------------------------------------------------------------
(* Orders confirmed by a payment *)

-----------------------------------------------------------------------------
(* Menu items taken off the menu while carts and order 1 hold them, the
   requests served one after the other *)

InitUnavailable ==
    /\ session_id_nullable \in BOOLEAN
    /\ observe = TRUE
    /\ InitStore(TRUE)

UnavailableRequest ==
    \/ \E m \in MenuIds : add_to_cart(1, m, 1, "")
    \/ \E m \in MenuIds : toggle_availability(2, m)
    \/ update_menu_item(2, 1, [is_available |-> FALSE])
    \/ clear_cart(1)
    \/ reorder(1, 1)
    \/ create_order_read(1, 1, "X", "")

NextUnavailable ==
    \/ inflight[1] = Idle /\ UnavailableRequest
    \/ create_order_finish(1)

SpecUnavailable == InitUnavailable /\ [][NextUnavailable]_vars

C39_NoCartGrowthWhenUnavailable ==
    [][\A r2 \in cart' :
          ~menu_items[r2.menu_item_id].is_available
              => \E r \in cart : r.id = r2.id /\ r2.quantity <= r.quantity]_vars

====
